---- MODULE Spec2Model ----
(***************************************************************************)
(* Verification model of src/final.py: the Mamdani fuzzy inference engine  *)
(* (FuzzySet, FuzzyInferenceSystem).  Numbers are Python ints and IEEE-754 *)
(* binary64 floats; the floats are modelled exactly (53-bit significand,   *)
(* round to nearest, ties to even) on top of an arbitrary-size natural     *)
(* number arithmetic, because TLC's own integers are 32 bits wide.         *)
(***************************************************************************)
EXTENDS Integers, Sequences, FiniteSets, TLC

VARIABLES input_sets, output_sets, rules, call

vars == <<input_sets, output_sets, rules, call>>

-----------------------------------------------------------------------------
(* Natural numbers of any size: little-endian sequences of limbs, no high  *)
(* zero limb, <<>> is 0.                                                   *)

LimbBits == 7 + 7
Base == 2 ^ LimbBits

RECURSIVE BNorm(_)
BNorm(s) ==
    IF s = <<>> THEN <<>>
    ELSE IF s[Len(s)] = 0 THEN BNorm(SubSeq(s, 1, Len(s) - 1))
    ELSE s

RECURSIVE BFromNat(_)
BFromNat(n) == IF n = 0 THEN <<>> ELSE <<n % Base>> \o BFromNat(n \div Base)

RECURSIVE BAddC(_, _, _)
BAddC(a, b, c) ==
    IF a = <<>> /\ b = <<>> THEN (IF c = 0 THEN <<>> ELSE <<c>>)
    ELSE LET x == IF a = <<>> THEN 0 ELSE Head(a)
             y == IF b = <<>> THEN 0 ELSE Head(b)
             t == x + y + c
         IN  <<t % Base>> \o BAddC(IF a = <<>> THEN <<>> ELSE Tail(a),
                                   IF b = <<>> THEN <<>> ELSE Tail(b),
                                   t \div Base)

BAdd(a, b) == BAddC(a, b, 0)

RECURSIVE BSubC(_, _, _)
BSubC(a, b, c) ==
    IF a = <<>> THEN <<>>
    ELSE LET y == IF b = <<>> THEN 0 ELSE Head(b)
             t == Head(a) - y - c
         IN  <<IF t < 0 THEN t + Base ELSE t>>
             \o BSubC(Tail(a), IF b = <<>> THEN <<>> ELSE Tail(b),
                      IF t < 0 THEN 1 ELSE 0)

\* a - b for a >= b
BSub(a, b) == BNorm(BSubC(a, b, 0))

RECURSIVE BCmpFrom(_, _, _)
BCmpFrom(a, b, i) ==
    IF i = 0 THEN 0
    ELSE IF a[i] < b[i] THEN -1
    ELSE IF a[i] > b[i] THEN 1
    ELSE BCmpFrom(a, b, i - 1)

\* -1, 0, 1 as a < b, a = b, a > b
BCmp(a, b) ==
    IF Len(a) < Len(b) THEN -1
    ELSE IF Len(a) > Len(b) THEN 1
    ELSE BCmpFrom(a, b, Len(a))

RECURSIVE BMulSmallC(_, _, _)
BMulSmallC(a, k, c) ==
    IF a = <<>> THEN (IF c = 0 THEN <<>> ELSE <<c>>)
    ELSE LET t == Head(a) * k + c
         IN  <<t % Base>> \o BMulSmallC(Tail(a), k, t \div Base)

\* a * k for 0 <= k < Base
BMulSmall(a, k) == IF k = 0 THEN <<>> ELSE BMulSmallC(a, k, 0)

\* a * Base
BShiftLimb(a) == IF a = <<>> THEN <<>> ELSE <<0>> \o a

RECURSIVE BMul(_, _)
BMul(a, b) ==
    IF b = <<>> \/ a = <<>> THEN <<>>
    ELSE BAdd(BMulSmall(a, Head(b)), BShiftLimb(BMul(a, Tail(b))))

RECURSIVE BDivSmallFrom(_, _, _, _)
BDivSmallFrom(a, k, i, r) ==
    IF i = 0 THEN <<>>
    ELSE LET t == r * Base + a[i]
         IN  BDivSmallFrom(a, k, i - 1, t % k) \o <<t \div k>>

\* floor(a / k) for 0 < k <= Base
BDivSmall(a, k) == BNorm(BDivSmallFrom(a, k, Len(a), 0))

RECURSIVE Zeros(_)
Zeros(n) == IF n = 0 THEN <<>> ELSE <<0>> \o Zeros(n - 1)

\* a * 2^n
BShl(a, n) ==
    IF a = <<>> THEN <<>>
    ELSE Zeros(n \div LimbBits) \o BMulSmall(a, 2 ^ (n % LimbBits))

\* floor(a / 2^n)
BShr(a, n) ==
    IF Len(a) <= n \div LimbBits THEN <<>>
    ELSE BDivSmall(SubSeq(a, n \div LimbBits + 1, Len(a)), 2 ^ (n % LimbBits))

RECURSIVE NatBitLen(_)
NatBitLen(n) == IF n = 0 THEN 0 ELSE 1 + NatBitLen(n \div 2)

BBitLen(a) ==
    IF a = <<>> THEN 0 ELSE LimbBits * (Len(a) - 1) + NatBitLen(a[Len(a)])

BBit(a, i) ==
    IF i \div LimbBits + 1 > Len(a) THEN 0
    ELSE (a[i \div LimbBits + 1] \div (2 ^ (i % LimbBits))) % 2

BIsOdd(a) == a # <<>> /\ Head(a) % 2 = 1

\* long division: the quotient q and the remainder r2 with one more bit taken in
BDivBit(b, q, r2) ==
    IF BCmp(r2, b) >= 0 THEN <<BAdd(BMulSmall(q, 2), <<1>>), BSub(r2, b)>>
    ELSE <<BMulSmall(q, 2), r2>>

\* long division, one step for bit i of a: qr is <<quotient, remainder>> so far
BDivStep(a, b, qr, i) ==
    BDivBit(b, qr[1], BAdd(BMulSmall(qr[2], 2), BFromNat(BBit(a, i))))

\* the steps for bits hi - 1 down to lo.  The range is halved and the first half
\* is evaluated (by the comparison) before the second starts, which keeps TLC's
\* evaluation stack shallow; the value is that of hi - lo steps in a row.
RECURSIVE BDivRange(_, _, _, _, _)
BDivRange(a, b, qr, hi, lo) ==
    IF hi <= lo THEN qr
    ELSE IF hi = lo + 1 THEN BDivStep(a, b, qr, lo)
    ELSE LET first == BDivRange(a, b, qr, hi, (hi + lo) \div 2)
         IN  IF first = first THEN BDivRange(a, b, first, (hi + lo) \div 2, lo)
             ELSE first

\* <<floor(a / b), a mod b>> for b # 0; a one-limb divisor is divided limb by limb
BDivOneLimb(a, k, q) == <<q, BSub(a, BMulSmall(q, k))>>

BDivMod(a, b) ==
    IF Len(b) = 1 THEN BDivOneLimb(a, b[1], BDivSmall(a, b[1]))
    ELSE BDivRange(a, b, <<<<>>, <<>>>>, BBitLen(a), 0)

-----------------------------------------------------------------------------
(* binary64 values: [s, m, e] is s * m * 2^e with s in {1, -1} and m odd,   *)
(* or m = 0, e = 0, s = 1: one representation per value (-0.0 is 0.0; the  *)
(* two compare equal in Python).  Exponents stay far inside the binary64   *)
(* range for the bounded inputs, so no overflow or subnormal case arises.  *)

Mantissa == 53

FZero == [s |-> 1, m |-> <<>>, e |-> 0]

RECURSIVE FCanon(_, _, _)
FCanon(s, m, e) ==
    IF m = <<>> THEN FZero
    ELSE IF Head(m) = 0 THEN FCanon(s, Tail(m), e + LimbBits)
    ELSE IF Head(m) % 2 = 0 THEN FCanon(s, BDivSmall(m, 2), e + 1)
    ELSE [s |-> s, m |-> m, e |-> e]

\* q rounded up or not by c, the dropped bits compared with half a unit of q
FRoundTie(s, q, c, e) ==
    FCanon(s, IF c > 0 \/ (c = 0 /\ BIsOdd(q)) THEN BAdd(q, <<1>>) ELSE q, e)

\* m with its sh low bits dropped: q is floor(m / 2^sh)
FRoundCut(s, m, e, sh, q) ==
    FRoundTie(s, q, BCmp(BSub(m, BShl(q, sh)), BShl(<<1>>, sh - 1)), e + sh)

\* the binary64 nearest to the exact s * m * 2^e, ties to even
FRound(s, m, e) ==
    IF BBitLen(m) <= Mantissa THEN FCanon(s, m, e)
    ELSE FRoundCut(s, m, e, BBitLen(m) - Mantissa, BShr(m, BBitLen(m) - Mantissa))

\* a Python int (np.int64) as a float: exact for the bounded values
FFromInt(n) == IF n < 0 THEN FCanon(-1, BFromNat(-n), 0) ELSE FCanon(1, BFromNat(n), 0)

FOne == FFromInt(1)

\* -1, 0, 1 as |a| < |b|, |a| = |b|, |a| > |b|
FCmpAbs(a, b) ==
    LET e == IF a.e < b.e THEN a.e ELSE b.e
    IN  BCmp(BShl(a.m, a.e - e), BShl(b.m, b.e - e))

\* -1, 0, 1 as a < b, a = b, a > b
FCmp(a, b) ==
    IF a.s # b.s THEN (IF a.s < b.s THEN -1 ELSE 1)
    ELSE a.s * FCmpAbs(a, b)

\* sa * am * 2^e + sb * bm * 2^e
FAddAligned(sa, am, sb, bm, e) ==
    IF sa = sb THEN FRound(sa, BAdd(am, bm), e)
    ELSE FRound(IF BCmp(am, bm) >= 0 THEN sa ELSE sb,
                IF BCmp(am, bm) >= 0 THEN BSub(am, bm) ELSE BSub(bm, am), e)

\* a + b
FAdd(a, b) ==
    LET e == IF a.e < b.e THEN a.e ELSE b.e
    IN  FAddAligned(a.s, BShl(a.m, a.e - e), b.s, BShl(b.m, b.e - e), e)

\* a * b
FMul(a, b) == FRound(a.s * b.s, BMul(a.m, b.m), a.e + b.e)

\* the quotient qr[1] with a sticky bit below it for a remainder qr[2] # 0
FDivSticky(s, qr, e) ==
    FRound(s, BAdd(BMulSmall(qr[1], 2), IF qr[2] = <<>> THEN <<>> ELSE <<1>>), e)

\* a / b with a scaled by 2^k, k large enough for a quotient of 56 bits and over
FDivScaled(a, b, k) ==
    FDivSticky(a.s * b.s, BDivMod(BShl(a.m, k), b.m), a.e - b.e - k - 1)

\* a / b for b # 0
FDiv(a, b) ==
    IF a.m = <<>> THEN FZero
    ELSE FDivScaled(a, b, IF BBitLen(b.m) + Mantissa + 3 > BBitLen(a.m)
                          THEN BBitLen(b.m) + Mantissa + 3 - BBitLen(a.m) ELSE 0)

\* Python's min(a, b) and max(a, b): the first argument unless the second wins
FMin(a, b) == IF FCmp(b, a) < 0 THEN b ELSE a
FMax(a, b) == IF FCmp(b, a) > 0 THEN b ELSE a

-----------------------------------------------------------------------------
(* Python dicts whose order the program never reads (input_sets,           *)
(* membership_functions, the caller's inputs) are functions on their key   *)
(* set; output_sets, whose first value evaluate takes, is a sequence of    *)
(* <<key, value>> in insertion order.                                      *)

EmptyDict == [k \in {} |-> 0]

DictSet(d, key, v) == [k \in DOMAIN d \cup {key} |-> IF k = key THEN v ELSE d[k]]

OrderedKeys(od) == [i \in 1..Len(od) |-> od[i][1]]

OrderedHas(od, key) == \E i \in 1..Len(od) : od[i][1] = key

OrderedGet(od, key) == od[CHOOSE i \in 1..Len(od) : od[i][1] = key][2]

\* od[key] = v: a new key goes last, a key already present keeps its place
OrderedSet(od, key, v) ==
    IF OrderedHas(od, key)
    THEN [i \in 1..Len(od) |-> IF od[i][1] = key THEN <<key, v>> ELSE od[i]]
    ELSE Append(od, <<key, v>>)

-----------------------------------------------------------------------------
(* What a call gives back: a value or the exception it raises, with the    *)
(* source line it returns or raises at and, for the record, what it worked *)
(* out on the way (None where there is nothing).                           *)

NoDiv == <<>>

Value(v, line, div) ==
    [kind |-> "value", value |-> v, error |-> "none", line |-> line, div |-> div]

Raise(error, line, div) ==
    [kind |-> "error", value |-> FZero, error |-> error, line |-> line, div |-> div]

None == [kind |-> "none", value |-> FZero, error |-> "none", line |-> 0, div |-> NoDiv]

\* n / d on Python ints: ZeroDivisionError, or the correctly rounded quotient
TrueDivide(n, d, line) ==
    IF d = 0 THEN Raise("ZeroDivisionError", line, <<n, d>>)
    ELSE Value(FDiv(FFromInt(n), FFromInt(d)), line, <<n, d>>)

\* np.arange with the stop value let in
RECURSIVE ArangeInclusive(_, _, _)
ArangeInclusive(start, stop, step) ==
    IF start > stop THEN <<>> ELSE <<start>> \o ArangeInclusive(start + step, stop, step)

\* np.arange(start, stop, step) on ints, step > 0
RECURSIVE Arange(_, _, _)
Arange(start, stop, step) ==
    IF start >= stop THEN <<>> ELSE <<start>> \o Arange(start + step, stop, step)

\* FuzzySet.__init__
FuzzySet(name, universe_range) ==
    [name |-> name,
     universe |-> Arange(universe_range[1], universe_range[2], universe_range[3]),
     membership_functions |-> EmptyDict]

\* FuzzySet.add_mf
add_mf(fs, name, mf_type, params) ==
    [fs EXCEPT !.membership_functions = DictSet(@, name, <<mf_type, params>>)]

\* _trimf with the two ends let into the slopes (x < a, x > c)
trimfClosed(x, params) ==
    LET a == params[1]
        b == params[2]
        c == params[3]
    IN  IF x < a \/ x > c THEN Value(FZero, 27, NoDiv)
        ELSE IF a <= x /\ x <= b THEN TrueDivide(x - a, b - a, 29)
        ELSE TrueDivide(c - x, c - b, 31)

\* FuzzySet._trimf
trimf(x, params) ==
    LET a == params[1]
        b == params[2]
        c == params[3]
    IN  IF x <= a \/ x >= c THEN Value(FZero, 27, NoDiv)
        ELSE IF a < x /\ x <= b THEN TrueDivide(x - a, b - a, 29)
        ELSE TrueDivide(c - x, c - b, 31)

\* _trapmf with the plateau tested before the two ends
trapmfPlateauFirst(x, params) ==
    LET a == params[1]
        b == params[2]
        c == params[3]
        d == params[4]
    IN  IF b <= x /\ x <= c THEN Value(FOne, 39, NoDiv)
        ELSE IF x <= a \/ x >= d THEN Value(FZero, 37, NoDiv)
        ELSE IF a < x /\ x < b THEN TrueDivide(x - a, b - a, 41)
        ELSE TrueDivide(d - x, d - c, 43)

\* FuzzySet._trapmf
trapmf(x, params) ==
    LET a == params[1]
        b == params[2]
        c == params[3]
        d == params[4]
    IN  IF x <= a \/ x >= d THEN Value(FZero, 37, NoDiv)
        ELSE IF b <= x /\ x <= c THEN Value(FOne, 39, NoDiv)
        ELSE IF a < x /\ x < b THEN TrueDivide(x - a, b - a, 41)
        ELSE TrueDivide(d - x, d - c, 43)

\* calculate_membership reading the label with a default, as dict.get would
calculate_membershipLenient(fs, name, x) ==
    IF name \notin DOMAIN fs.membership_functions THEN Value(FZero, 21, NoDiv)
    ELSE LET mf_type == fs.membership_functions[name][1]
             params  == fs.membership_functions[name][2]
         IN  IF mf_type = "trimf" THEN trimf(x, params)
             ELSE IF mf_type = "trapmf" THEN trapmf(x, params)
             ELSE Value(FZero, 21, NoDiv)

\* FuzzySet.calculate_membership
calculate_membership(fs, name, x) ==
    IF name \notin DOMAIN fs.membership_functions THEN Raise("UnknownLabel", 15, NoDiv)
    ELSE LET mf_type == fs.membership_functions[name][1]
             params  == fs.membership_functions[name][2]
         IN  IF mf_type = "trimf" THEN trimf(x, params)
             ELSE IF mf_type = "trapmf" THEN trapmf(x, params)
             ELSE Value(FZero, 21, NoDiv)

-----------------------------------------------------------------------------
(* FuzzyInferenceSystem.evaluate.  self is the engine, [input_sets,        *)
(* output_sets, rules]; a rule is <<antecedents, consequent>>, an          *)
(* antecedent <<var_name, mf_name>>, a consequent <<output_name, mf_name>>.*)

EvalResult(kind, v, error, line, rule_strengths, aggregated, numerator, denominator) ==
    [kind |-> kind, value |-> v, error |-> error, line |-> line,
     rule_strengths |-> rule_strengths, aggregated |-> aggregated,
     numerator |-> numerator, denominator |-> denominator]

RECURSIVE AntecedentLoop(_, _, _, _, _)

\* lines 74-75 leaving the loop once the strength is 0
AntecedentStepShortCircuit(self, inputs, antecedents, i, strength, membership) ==
    IF membership.kind = "error" THEN membership
    ELSE IF FMin(strength, membership.value) = FZero THEN Value(FZero, 76, NoDiv)
    ELSE AntecedentLoop(self, inputs, antecedents, i + 1, FMin(strength, membership.value))

\* lines 74-75 once calculate_membership has returned or raised
AntecedentStep(self, inputs, antecedents, i, strength, membership) ==
    IF membership.kind = "error" THEN membership
    ELSE AntecedentLoop(self, inputs, antecedents, i + 1, FMin(strength, membership.value))

\* lines 72-75 from the i-th antecedent on; strength is the minimum so far
AntecedentLoop(self, inputs, antecedents, i, strength) ==
    IF i > Len(antecedents) THEN Value(strength, 76, NoDiv)
    ELSE LET var_name == antecedents[i][1]
             mf_name  == antecedents[i][2]
         IN  IF var_name \notin DOMAIN inputs THEN Raise("MissingInput", 73, NoDiv)
             ELSE IF var_name \notin DOMAIN self.input_sets
                  THEN Raise("UnknownVariable", 74, NoDiv)
             ELSE AntecedentStep(self, inputs, antecedents, i, strength,
                      calculate_membership(self.input_sets[var_name], mf_name,
                                           inputs[var_name]))

RECURSIVE RuleLoop(_, _, _, _)

\* line 76 once the antecedents of the i-th rule are done
RuleStep(self, inputs, i, rule_strengths, strength) ==
    IF strength.kind = "error"
    THEN [kind |-> "error", error |-> strength.error, line |-> strength.line,
          rule_strengths |-> rule_strengths]
    ELSE RuleLoop(self, inputs, i + 1,
                  Append(rule_strengths, <<strength.value, self.rules[i][2]>>))

\* lines 70-76 from the i-th rule on: the exception raised, or rule_strengths
RuleLoop(self, inputs, i, rule_strengths) ==
    IF i > Len(self.rules)
    THEN [kind |-> "value", error |-> "none", line |-> 76, rule_strengths |-> rule_strengths]
    ELSE RuleStep(self, inputs, i, rule_strengths,
                  AntecedentLoop(self, inputs, self.rules[i][1], 1, FOne))

\* line 79 with the test left out
EmptyRuleBaseSkipped(rule_strengths) == FALSE

\* line 79: not rule_strengths
EmptyRuleBase(rule_strengths) == rule_strengths = <<>>

\* line 82 taking the output registered last
last_output_set(registry) == registry[Len(registry)][2]

\* line 82: list(self.output_sets.values())[0], for a registry that is not empty
first_output_set(registry) == registry[1][2]

\* line 90 keeping the latest rule's membership
AggregateLast(max_membership, membership) == membership

\* line 90: max(max_membership, membership)
Aggregate(max_membership, membership) == FMax(max_membership, membership)

RECURSIVE MembershipLoop(_, _, _, _, _)

\* lines 89-90 once calculate_membership has returned or raised m
MembershipStep(output_set, rule_strengths, x, j, max_membership, m) ==
    IF m.kind = "error" THEN m
    ELSE MembershipLoop(output_set, rule_strengths, x, j + 1,
                        Aggregate(max_membership, FMin(rule_strengths[j][1], m.value)))

\* lines 88-90 from the j-th rule on, at the universe point x
MembershipLoop(output_set, rule_strengths, x, j, max_membership) ==
    IF j > Len(rule_strengths) THEN Value(max_membership, 90, NoDiv)
    ELSE MembershipStep(output_set, rule_strengths, x, j, max_membership,
                        calculate_membership(output_set, rule_strengths[j][2][2], x))

RECURSIVE UniverseLoop(_, _, _, _, _, _)

\* lines 92-93 once the rules are done at the i-th universe point
UniverseStep(output_set, rule_strengths, i, numerator, denominator, aggregated, max_membership) ==
    IF max_membership.kind = "error"
    THEN EvalResult("error", FZero, max_membership.error, max_membership.line,
                    rule_strengths, aggregated, numerator, denominator)
    ELSE UniverseLoop(output_set, rule_strengths, i + 1,
                      FAdd(numerator,
                           FMul(FFromInt(output_set.universe[i]), max_membership.value)),
                      FAdd(denominator, max_membership.value),
                      Append(aggregated, max_membership.value))

\* lines 86-93 from the i-th universe point on
UniverseLoop(output_set, rule_strengths, i, numerator, denominator, aggregated) ==
    IF i > Len(output_set.universe)
    THEN EvalResult("value", FZero, "none", 93, rule_strengths, aggregated,
                    numerator, denominator)
    ELSE UniverseStep(output_set, rule_strengths, i, numerator, denominator, aggregated,
                      MembershipLoop(output_set, rule_strengths, output_set.universe[i],
                                     1, FZero))

\* line 95 without the test of the denominator
CentroidUnguarded(numerator, denominator) ==
    IF denominator = FZero THEN Raise("ZeroDivisionError", 95, NoDiv)
    ELSE Value(FDiv(numerator, denominator), 95, NoDiv)

\* line 95: numerator / denominator if denominator != 0 else 0
Centroid(numerator, denominator) ==
    IF denominator # FZero THEN Value(FDiv(numerator, denominator), 95, NoDiv)
    ELSE Value(FZero, 95, NoDiv)

\* line 95, d being what lines 86-93 left and r the centroid
Return(d, r) ==
    EvalResult(r.kind, r.value, r.error, r.line, d.rule_strengths, d.aggregated,
               d.numerator, d.denominator)

\* line 95 unless lines 86-93 raised
Defuzzify(d) ==
    IF d.kind = "error" THEN d ELSE Return(d, Centroid(d.numerator, d.denominator))

\* lines 78-95, rs being what lines 69-76 left
AfterRules(self, rs) ==
    IF rs.kind = "error"
    THEN EvalResult("error", FZero, rs.error, rs.line, rs.rule_strengths, <<>>, FZero, FZero)
    ELSE IF EmptyRuleBase(rs.rule_strengths)
    THEN EvalResult("value", FZero, "none", 80, <<>>, <<>>, FZero, FZero)
    ELSE IF self.output_sets = <<>>
    THEN EvalResult("error", FZero, "IndexError", 82, rs.rule_strengths, <<>>, FZero, FZero)
    ELSE Defuzzify(UniverseLoop(first_output_set(self.output_sets), rs.rule_strengths,
                                1, FZero, FZero, <<>>))

evaluate(self, inputs) == AfterRules(self, RuleLoop(self, inputs, 1, <<>>))

-----------------------------------------------------------------------------
(* The calls made on one engine.  call is the latest call: its name, its   *)
(* arguments and what it gave back.                                        *)

MaxRules == 2

InputNames  == {"x", "y"}
InputRanges == {<<0, 5, 1>>}
OutputDecls == {<<"o", <<0, 5, 1>>>>, <<"p", <<1, 3, 1>>>>}

\* the membership functions the build calls register: <<variable, label, shape, params>>
InputMfs  == {<<"x", "lo", "trimf", <<0, 2, 4>>>>, <<"y", "lo", "trimf", <<0, 2, 4>>>>}
OutputMfs == {<<"o", "lo", "trimf", <<0, 0, 3>>>>,
              <<"p", "lo", "trapmf", <<1, 3, 4, 4>>>>,
              <<"p", "lo", "trimf", <<1, 1, 2>>>>}

RuleChoices == {<< <<>>, <<"o", "lo">> >>,
                << << <<"x", "lo">> >>, <<"p", "lo">> >>,
                << << <<"x", "lo">>, <<"y", "lo">> >>, <<"o", "lo">> >>}

\* the caller's input mappings: none, x alone (0, 1), x = 2 with y = 1
InputMaps ==
    {EmptyDict}
    \cup { [k \in {"x"} |-> xv] : xv \in 0..1 }
    \cup { [k \in {"x", "y"} |-> IF k = "x" THEN 2 ELSE 1] }

Engine == [input_sets |-> input_sets, output_sets |-> output_sets, rules |-> rules]

Called(op, args, outcome) == [op |-> op, args |-> args, outcome |-> outcome]

\* FuzzyInferenceSystem.__init__
Init ==
    /\ input_sets = EmptyDict
    /\ output_sets = <<>>
    /\ rules = <<>>
    /\ call = Called("__init__", <<>>, None)

\* FuzzyInferenceSystem.add_input
add_input ==
    \E name \in InputNames, universe_range \in InputRanges :
        /\ input_sets' = DictSet(input_sets, name, FuzzySet(name, universe_range))
        /\ call' = Called("add_input", <<name, universe_range>>, None)
        /\ UNCHANGED <<output_sets, rules>>

\* FuzzyInferenceSystem.add_output
add_output ==
    \E decl \in OutputDecls :
        /\ output_sets' = OrderedSet(output_sets, decl[1], FuzzySet(decl[1], decl[2]))
        /\ call' = Called("add_output", decl, None)
        /\ UNCHANGED <<input_sets, rules>>

\* add_mf on the handle add_input returned, the set registered under the name
add_input_mf ==
    \E mf \in InputMfs :
        /\ mf[1] \in DOMAIN input_sets
        /\ input_sets' = [input_sets EXCEPT ![mf[1]] = add_mf(@, mf[2], mf[3], mf[4])]
        /\ call' = Called("add_mf", mf, None)
        /\ UNCHANGED <<output_sets, rules>>

\* add_mf on the handle add_output returned
add_output_mf ==
    \E mf \in OutputMfs :
        /\ OrderedHas(output_sets, mf[1])
        /\ output_sets' = OrderedSet(output_sets, mf[1],
                              add_mf(OrderedGet(output_sets, mf[1]), mf[2], mf[3], mf[4]))
        /\ call' = Called("add_mf", mf, None)
        /\ UNCHANGED <<input_sets, rules>>

\* FuzzyInferenceSystem.add_rule, the rule one of choices
add_rule(choices) ==
    \E rule \in choices :
        /\ Len(rules) < MaxRules
        /\ rules' = Append(rules, rule)
        /\ call' = Called("add_rule", rule, None)
        /\ UNCHANGED <<input_sets, output_sets>>

\* evaluate taking each rule off the list as it goes
EvaluateConsuming(maps) ==
    \E inputs \in maps :
        /\ call' = Called("evaluate", inputs, evaluate(Engine, inputs))
        /\ rules' = <<>>
        /\ UNCHANGED <<input_sets, output_sets>>

\* a call of FuzzyInferenceSystem.evaluate, the mapping one of maps
Evaluate(maps) ==
    \E inputs \in maps :
        /\ call' = Called("evaluate", inputs, evaluate(Engine, inputs))
        /\ UNCHANGED <<input_sets, output_sets, rules>>

Next ==
    \/ add_input
    \/ add_output
    \/ add_input_mf
    \/ add_output_mf
    \/ add_rule(RuleChoices)
    \/ Evaluate(InputMaps)

Spec == Init /\ [][Next]_vars

-----------------------------------------------------------------------------
(* The membership functions alone: one variable x with one label A of      *)
(* either shape, every parameter list over 0..MaxParam in any order, and   *)
(* calculate_membership called on it.                                      *)

MaxParam == 3

Params(n) == [1..n -> 0..MaxParam]

InitMF ==
    \E mf \in ({"trimf"} \X Params(3)) \cup ({"trapmf"} \X Params(4)) :
        /\ input_sets = DictSet(EmptyDict, "x",
                                add_mf(FuzzySet("x", <<0, 5, 1>>), "A", mf[1], mf[2]))
        /\ output_sets = <<>>
        /\ rules = <<>>
        /\ call = Called("add_mf", <<"x", "A", mf[1], mf[2]>>, None)

\* FuzzySet.calculate_membership on the handle of x
Membership ==
    \E x \in -1..(MaxParam + 1) :
        /\ call' = Called("calculate_membership", <<"A", x>>,
                          calculate_membership(input_sets["x"], "A", x))
        /\ UNCHANGED <<input_sets, output_sets, rules>>

NextMF == Membership

SpecMF == InitMF /\ [][NextMF]_vars

-----------------------------------------------------------------------------
(* Centre of gravity over the universe of (0, 10, 1): one output o with a  *)
(* triangle c of parameters <<a, b, c>> and the triangle v = (0, 0, 3),    *)
(* one input x whose label lo gives 0.5 at 1 and 1.0 at 2.                 *)
(* The triangles: the symmetric ones that fit in 0..9, two lopsided ones  *)
(* and one that is a single point.                                         *)

CogShapes ==
    { <<p - w, p, p + w>> : p \in 0..9, w \in 1..4 }
    \cup { <<0, 2, 9>>, <<0, 7, 9>>, <<5, 5, 5>> }

CogRules == {<< <<>>, <<"o", "c">> >>,
             << << <<"x", "lo">> >>, <<"o", "c">> >>,
             << << <<"x", "lo">> >>, <<"o", "v">> >>}

CogInputs == { [k \in {"x"} |-> xv] : xv \in 1..2 }

InitCOG ==
    \E shape \in CogShapes :
        /\ shape[1] >= 0 /\ shape[3] <= 9
        /\ input_sets = DictSet(EmptyDict, "x",
                                add_mf(FuzzySet("x", <<0, 5, 1>>), "lo", "trimf", <<0, 2, 4>>))
        /\ output_sets = << <<"o", add_mf(add_mf(FuzzySet("o", <<0, 10, 1>>),
                                                 "c", "trimf", shape),
                                          "v", "trimf", <<0, 0, 3>>)>> >>
        /\ rules = <<>>
        /\ call = Called("add_mf", <<"o", "v", "trimf", <<0, 0, 3>>>>, None)

NextCOG ==
    \/ add_rule(CogRules)
    \/ Evaluate(CogInputs)

SpecCOG == InitCOG /\ [][NextCOG]_vars
-----------------------------------------------------------------------------
(* The properties.  outcome is what the latest call gave back; the engine  *)
(* of an evaluate state is the engine the call ran on, since evaluate      *)
(* leaves the three registries alone (C6).                                 *)

outcome == call.outcome

\* the firing strengths lines 69-76 work out for the latest evaluate call
Fired == RuleLoop(Engine, call.args, 1, <<>>)

\* C1: evaluate on an engine whose rule list is empty returns 0 for every
\* input mapping, from line 80, before the input mapping or the output
\* registry is read: also with no output registered and no input supplied.
C1_EmptyRuleListReturnsZero ==
    (call.op = "evaluate" /\ rules = <<>>) =>
        /\ outcome.kind = "value"
        /\ outcome.value = FZero
        /\ outcome.line = 80
        /\ \A inputs \in InputMaps : evaluate(Engine, inputs).value = FZero
                                     /\ evaluate(Engine, inputs).kind = "value"

\* C1 happens: no rule, no output registered, inputs registered, the empty mapping
C1_Witness ==
    /\ call.op = "evaluate"
    /\ rules = <<>>
    /\ output_sets = <<>>
    /\ input_sets # EmptyDict
    /\ call.args = EmptyDict
    /\ outcome.value = FZero

\* every rule clipped to 0 at every point of the first output's universe
AllClippedToZero(out, rule_strengths) ==
    \A j \in 1..Len(rule_strengths), i \in 1..Len(out.universe) :
        /\ calculate_membership(out, rule_strengths[j][2][2], out.universe[i]).kind = "value"
        /\ FMin(rule_strengths[j][1],
                calculate_membership(out, rule_strengths[j][2][2],
                                     out.universe[i]).value) = FZero

\* the case of C2: rules, all of them fired, an output, nothing left by min
C2_Case ==
    /\ call.op = "evaluate"
    /\ rules # <<>>
    /\ output_sets # <<>>
    /\ Fired.kind = "value"
    /\ AllClippedToZero(first_output_set(output_sets), Fired.rule_strengths)

\* C2: with at least one rule, when min(firing strength, consequent
\* membership) is 0 for every rule at every point of the first output's
\* universe, the denominator is 0 and evaluate returns 0 from line 95
\* instead of dividing.
C2_ZeroDenominatorReturnsZero ==
    C2_Case =>
        /\ outcome.kind = "value"
        /\ outcome.value = FZero
        /\ outcome.line = 95
        /\ outcome.denominator = FZero
        /\ outcome.numerator = FZero

\* C2 happens with a rule that fires (strength 1.0) on a consequent that is 0
\* at every universe point
C2_Witness ==
    /\ C2_Case
    /\ \E j \in 1..Len(Fired.rule_strengths) : Fired.rule_strengths[j][1] = FOne
    /\ outcome.value = FZero

\* the label A of x in the membership specification
MfType == input_sets["x"].membership_functions["A"][1]
MfParams == input_sets["x"].membership_functions["A"][2]

NonDecreasing(params) == \A i \in 1..(Len(params) - 1) : params[i] <= params[i + 1]

\* C3 as stated: for a <= b <= c (<= d), equalities allowed, the triangle is 0
\* outside the open interval (a, c) and 1 at x = b, the trapezoid 0 outside
\* (a, d) and 1 for b <= x <= c.
C3_Original ==
    (call.op = "calculate_membership" /\ NonDecreasing(MfParams)) =>
        LET x == call.args[2]
            a == MfParams[1]
            b == MfParams[2]
            c == MfParams[3]
            last == MfParams[Len(MfParams)]
        IN  /\ (x <= a \/ x >= last) => outcome.value = FZero
            /\ (MfType = "trimf" /\ x = b) => outcome.value = FOne
            /\ (MfType = "trapmf" /\ b <= x /\ x <= c) => outcome.value = FOne

\* C3 amended: for a <= b <= c (<= d) the membership is 0 for x <= a and for
\* x >= c (x >= d), so also at x = b when a = b or b = c and on the part of
\* [b, c] that touches a or d; the triangle is 1 at x = b when a < b < c, the
\* trapezoid 1 for every x with b <= x <= c and a < x < d.
C3_ZeroOutsidePeakInside ==
    (call.op = "calculate_membership" /\ NonDecreasing(MfParams)) =>
        LET x == call.args[2]
            a == MfParams[1]
            b == MfParams[2]
            c == MfParams[3]
            last == MfParams[Len(MfParams)]
        IN  /\ outcome.kind = "value"
            /\ (x <= a \/ x >= last) => (outcome.value = FZero /\ outcome.div = NoDiv)
            /\ (MfType = "trimf" /\ x = b /\ a < b /\ b < c) => outcome.value = FOne
            /\ (MfType = "trapmf" /\ b <= x /\ x <= c /\ a < x /\ x < last)
                   => outcome.value = FOne

\* C3 happens where the statement had to change: a shoulder a = b < c asked at x = b
C3_Witness ==
    /\ call.op = "calculate_membership"
    /\ NonDecreasing(MfParams)
    /\ MfParams[1] = MfParams[2]
    /\ MfParams[2] < MfParams[3]
    /\ call.args[2] = MfParams[2]
    /\ outcome.value = FZero

\* C10: for both shapes, every x and every parameter list (a = b, b = c,
\* c = d and lists out of order too) the membership is a degree d with
\* 0 <= d <= 1 and no division by zero happens: a division is reached only
\* with a divisor > 0 and a numerator between 0 and the divisor.
C10_DegreeInUnitInterval ==
    call.op = "calculate_membership" =>
        /\ outcome.kind = "value"
        /\ FCmp(FZero, outcome.value) <= 0
        /\ FCmp(outcome.value, FOne) <= 0
        /\ outcome.div # NoDiv =>
               /\ outcome.div[2] > 0
               /\ 0 <= outcome.div[1]
               /\ outcome.div[1] <= outcome.div[2]

\* C10 happens: a list out of order on which a division is reached
C10_Witness ==
    /\ call.op = "calculate_membership"
    /\ ~NonDecreasing(MfParams)
    /\ outcome.div # NoDiv
    /\ outcome.kind = "value"

\* the places <<rule, antecedent>> of the rule list, in the order evaluate visits them
Positions ==
    UNION { { <<r, i>> : i \in 1..Len(rules[r][1]) } : r \in 1..Len(rules) }

Antecedent(p) == rules[p[1]][1][p[2]]

Before(q, p) == q[1] < p[1] \/ (q[1] = p[1] /\ q[2] < p[2])

\* an antecedent naming an input never registered, or a label not on its input
AntecedentUnresolved(a) ==
    \/ a[1] \notin DOMAIN input_sets
    \/ a[2] \notin DOMAIN input_sets[a[1]].membership_functions

\* a consequent naming an output never registered, or a label not on its output
ConsequentUnresolved(c) ==
    \/ ~OrderedHas(output_sets, c[1])
    \/ c[2] \notin DOMAIN OrderedGet(output_sets, c[1]).membership_functions

\* a consequent whose label the first output registered does not carry
LabelNotOnFirst(c) ==
    c[2] \notin DOMAIN first_output_set(output_sets).membership_functions

\* add_rule appends what it is given, whatever it names
AddRuleAppends ==
    call.op = "add_rule" => (rules # <<>> /\ rules[Len(rules)] = call.args)

\* C4 as stated: add_rule appends without validation, and every unresolved
\* reference of a rule (antecedent variable, antecedent label, consequent
\* output, consequent label) makes evaluate fail instead of returning a number.
C4_Original ==
    /\ AddRuleAppends
    /\ (/\ call.op = "evaluate"
        /\ \/ \E p \in Positions : AntecedentUnresolved(Antecedent(p))
           \/ \E r \in 1..Len(rules) : ConsequentUnresolved(rules[r][2]))
       => outcome.kind = "error"

\* C4 amended: add_rule appends without validation; an antecedent naming an
\* input never registered or a label not on its input makes evaluate fail;
\* the output a consequent names is never looked up: once every rule has
\* fired, evaluate fails when no output is registered at all (line 82) and
\* otherwise fails exactly when some consequent's label is missing on the
\* output registered first (line 15), whatever output the consequent names.
C4_UnresolvedReferences ==
    /\ AddRuleAppends
    /\ call.op = "evaluate" =>
        /\ (\E p \in Positions : AntecedentUnresolved(Antecedent(p)))
               => (outcome.kind = "error" /\ outcome.line \in {15, 73, 74})
        /\ (Fired.kind = "value" /\ rules # <<>> /\ output_sets = <<>>)
               => (outcome.kind = "error" /\ outcome.line = 82)
        /\ (Fired.kind = "value" /\ rules # <<>> /\ output_sets # <<>>
                /\ first_output_set(output_sets).universe # <<>>)
               => ((outcome.kind = "error" /\ outcome.error = "UnknownLabel")
                       <=> \E r \in 1..Len(rules) : LabelNotOnFirst(rules[r][2]))

\* C4 happens where the statement had to change: a rule whose consequent names
\* an output never registered, and evaluate returns a number other than 0
C4_Witness ==
    /\ call.op = "evaluate"
    /\ \E r \in 1..Len(rules) : ~OrderedHas(output_sets, rules[r][2][1])
    /\ outcome.kind = "value"
    /\ outcome.line = 95
    /\ outcome.value # FZero

\* the caller's mapping has no value for the variable the antecedent at p names
Missing(p) == Antecedent(p)[1] \notin DOMAIN call.args

\* C5 as stated: evaluate fails with the missing-input error whenever the
\* mapping has no value for a variable some antecedent names, and with no
\* such antecedent it raises no missing-input error.
C5_Original ==
    call.op = "evaluate" =>
        IF \E p \in Positions : Missing(p)
        THEN outcome.kind = "error" /\ outcome.error = "MissingInput"
        ELSE outcome.error # "MissingInput"

\* C5 amended: whenever the mapping has no value for a variable some
\* antecedent names, evaluate fails and returns no number, also when another
\* antecedent of the rule has membership 0; the error is the missing-input
\* error of line 73 exactly when every antecedent visited before the first
\* such one (rule order, then antecedent order) has a value and resolves;
\* otherwise the lookup error of that earlier antecedent is raised.  With no
\* such antecedent there is no missing-input error.
C5_MissingInputFails ==
    call.op = "evaluate" =>
        /\ (\E p \in Positions : Missing(p)) => outcome.kind = "error"
        /\ (outcome.error = "MissingInput" /\ outcome.line = 73)
               <=> \E p \in Positions :
                       /\ Missing(p)
                       /\ \A q \in Positions :
                              Before(q, p) =>
                                  (~Missing(q) /\ ~AntecedentUnresolved(Antecedent(q)))
        /\ outcome.error = "MissingInput" => outcome.kind = "error"

\* C5 happens: x has membership 0 at 0, y is asked by the same rule and has no value
C5_Witness ==
    /\ call.op = "evaluate"
    /\ \E p \in Positions :
           /\ p[2] = 2
           /\ Missing(p)
           /\ ~Missing(<<p[1], 1>>)
           /\ ~AntecedentUnresolved(Antecedent(<<p[1], 1>>))
           /\ calculate_membership(input_sets[Antecedent(<<p[1], 1>>)[1]],
                                   Antecedent(<<p[1], 1>>)[2],
                                   call.args[Antecedent(<<p[1], 1>>)[1]]).value = FZero
    /\ outcome.error = "MissingInput"

\* C6: a call of evaluate, returning or raising, leaves the input registry,
\* the output registry (each variable's universe and membership functions
\* with them) and the rule list as they were before the call.
C6_EvaluateLeavesEngine ==
    [][call'.op = "evaluate" =>
           (input_sets' = input_sets /\ output_sets' = output_sets /\ rules' = rules)]_vars

\* C6 happens: evaluate has raised on an engine with inputs, outputs and rules
C6_Witness ==
    /\ call.op = "evaluate"
    /\ outcome.kind = "error"
    /\ input_sets # EmptyDict
    /\ output_sets # <<>>
    /\ rules # <<>>

\* the engine with the first output alone and every consequent naming it
FirstOutputOnly ==
    [input_sets |-> input_sets,
     output_sets |-> << output_sets[1] >>,
     rules |-> [r \in 1..Len(rules) |->
                   << rules[r][1], << output_sets[1][1], rules[r][2][2] >> >>]]

\* what a call of evaluate shows: the value or the error, and the sums behind it
Returned(o) == <<o.kind, o.value, o.error, o.line, o.aggregated, o.numerator, o.denominator>>

\* the case of C7: two outputs or more, a rule or more, evaluate called
C7_Case == call.op = "evaluate" /\ Len(output_sets) >= 2 /\ rules # <<>>

\* C7, the call: the aggregation runs over the universe of the output
\* registered first, a consequent's label is looked up on that output
\* whatever output it names, and the outcome is the one of the engine with
\* the first output alone.
C7_OnFirstOutput ==
    C7_Case =>
        /\ Returned(outcome) = Returned(evaluate(FirstOutputOnly, call.args))
        /\ outcome.kind = "value" =>
               Len(outcome.aggregated) = Len(output_sets[1][2].universe)
        /\ Fired.kind = "value" =>
               (outcome.kind = "error"
                    <=> \E r \in 1..Len(rules) : LabelNotOnFirst(rules[r][2]))

\* C7: on an engine with two or more outputs and at least one rule evaluate
\* defuzzifies over the output registered first, whatever output the
\* consequents name, and registering outputs never changes which one is first.
C7_FirstRegisteredOutput ==
    /\ []C7_OnFirstOutput
    /\ [][output_sets # <<>> =>
              (output_sets' # <<>> /\ output_sets'[1][1] = output_sets[1][1])]_vars

\* C7 happens: p registered first, o second, a rule naming o, and the result
\* is worked out on the two points of p
C7_Witness ==
    /\ C7_Case
    /\ output_sets[1][1] = "p"
    /\ \E r \in 1..Len(rules) : rules[r][2][1] = "o"
    /\ outcome.kind = "value"
    /\ Len(outcome.aggregated) = 2
    /\ outcome.value # FZero

\* the triangle c of the output o in the centre-of-gravity specification
CShape == output_sets[1][2].membership_functions["c"][2]

\* Triangular(p - w, p, p + w) with w >= 1
Symmetric(shape) == shape[2] - shape[1] = shape[3] - shape[2] /\ shape[2] - shape[1] >= 1

\* the case of C8: one rule, fired at 1.0, its consequent the symmetric triangle c
C8_Case ==
    /\ call.op = "evaluate"
    /\ Len(rules) = 1
    /\ rules[1][2] = <<"o", "c">>
    /\ Fired.kind = "value"
    /\ Fired.rule_strengths[1][1] = FOne
    /\ Symmetric(CShape)

\* the binary64 numbers 8.999999999999998 = (9 * 2^49 - 1) / 2^49 and
\* 2.9999999999999996 = (3 * 2^51 - 1) / 2^51
F8_999999999999998 == [s |-> 1, m |-> <<16383, 16383, 16383, 1151>>, e |-> -49]
F2_9999999999999996 == [s |-> 1, m |-> <<16383, 16383, 16383, 1535>>, e |-> -51]

\* what C8 says of the universe of (0, 10, 1) and of Triangular(2, 5, 8)
C8_UniverseAndExample ==
    /\ output_sets[1][2].universe = <<0, 1, 2, 3, 4, 5, 6, 7, 8, 9>>
    /\ CShape = <<2, 5, 8>> =>
           /\ outcome.numerator = FFromInt(15)
           /\ outcome.denominator = FFromInt(3)
           /\ outcome.value = FFromInt(5)

\* C8 as stated: over the points 0..9 of (0, 10, 1) one rule fired at 1.0 on a
\* symmetric Triangular(p - w, p, p + w), w >= 1, 0 <= p - w, p + w <= 9,
\* evaluates to exactly p; Triangular(2, 5, 8) gives 15, 3 and 5.
C8_Original ==
    C8_Case =>
        /\ C8_UniverseAndExample
        /\ outcome.kind = "value"
        /\ outcome.value = FFromInt(CShape[2])

\* C8 amended: the same, except for Triangular(0, 3, 6), where the sums in
\* binary64 give the numerator 8.999999999999998, the denominator 3.0 and the
\* result 2.9999999999999996, one unit in the last place under the peak 3.
C8_SymmetricCentroid ==
    C8_Case =>
        /\ C8_UniverseAndExample
        /\ outcome.kind = "value"
        /\ CShape # <<0, 3, 6>> => outcome.value = FFromInt(CShape[2])
        /\ CShape = <<0, 3, 6>> =>
               /\ outcome.numerator = F8_999999999999998
               /\ outcome.denominator = FFromInt(3)
               /\ outcome.value = F2_9999999999999996

\* C8 happens where the statement had to change: Triangular(0, 3, 6) fired at 1.0
C8_Witness ==
    /\ C8_Case
    /\ CShape = <<0, 3, 6>>
    /\ outcome.value = F2_9999999999999996
    /\ FCmp(outcome.value, FFromInt(3)) < 0

\* the greatest of a finite set of floats that is not empty
FMaxOf(S) == CHOOSE v \in S : \A u \in S : FCmp(u, v) <= 0

\* min(firing strength, consequent membership at the i-th point) of rule j
Clipped(out, rule_strengths, j, i) ==
    FMin(rule_strengths[j][1],
         calculate_membership(out, rule_strengths[j][2][2], out.universe[i]).value)

\* the rules turned round
Reversed(seq) == [k \in 1..Len(seq) |-> seq[Len(seq) + 1 - k]]

\* what evaluate aggregates with the rule list changed to rule_list
AggregatedWith(rule_list) ==
    evaluate([input_sets |-> input_sets, output_sets |-> output_sets,
              rules |-> rule_list], call.args).aggregated

\* the case of C9: evaluate has gone through the aggregation
C9_Case == call.op = "evaluate" /\ rules # <<>> /\ outcome.kind = "value"

\* aggregated is, point by point, the greatest of the rules' clipped memberships
IsMaxOfClipped(out, rule_strengths, aggregated) ==
    /\ Len(aggregated) = Len(out.universe)
    /\ \A i \in 1..Len(out.universe) :
           aggregated[i] = FMaxOf({ Clipped(out, rule_strengths, j, i) :
                                        j \in 1..Len(rule_strengths) })

\* no point of after lies under the same point of before
NowhereLower(before, after) ==
    /\ Len(after) = Len(before)
    /\ \A i \in 1..Len(before) : FCmp(after[i], before[i]) >= 0

\* Triangular(2, 5, 8) fired at 1.0, then Triangular(0, 0, 3) fired at 0.5
C9_TwoRules ==
    /\ CShape = <<2, 5, 8>>
    /\ rules = << << <<>>, <<"o", "c">> >>, << << <<"x", "lo">> >>, <<"o", "v">> >> >>
    /\ call.args["x"] = 1

\* C9: at every point y of the output universe the aggregated membership is
\* the maximum over the rules of min(firing strength, consequent membership
\* at y); the rule appended last has lowered it nowhere, the rules in the
\* opposite order give the same, and Triangular(2, 5, 8) fired at 1.0 keeps 1
\* at y = 5 when a rule fired at 0.5 on Triangular(0, 0, 3) is added.
C9_MaxAggregation ==
    C9_Case =>
        /\ IsMaxOfClipped(output_sets[1][2], Fired.rule_strengths, outcome.aggregated)
        /\ Len(rules) >= 2 =>
               /\ AggregatedWith(Reversed(rules)) = outcome.aggregated
               /\ NowhereLower(AggregatedWith(SubSeq(rules, 1, Len(rules) - 1)),
                               outcome.aggregated)
        /\ C9_TwoRules => (Fired.rule_strengths[2][1] = FDiv(FOne, FFromInt(2))
                           /\ outcome.aggregated[6] = FOne)

\* C9 happens: Triangular(2, 5, 8) fired at 1.0, then Triangular(0, 0, 3) fired
\* at 0.5, and the second rule wins at y = 0 .. 2 without lowering y = 5
C9_Witness ==
    /\ C9_Case
    /\ C9_TwoRules
    /\ outcome.aggregated[6] = FOne
    /\ outcome.aggregated[2] = FDiv(FOne, FFromInt(2))

====
